---- MODULE Spec2Model ----
(***************************************************************************)
(* Button classifier and configuration menu of the kxusbc2 firmware        *)
(* (firmware/src/button.c) and the LED driver the menu draws with          *)
(* (firmware/src/led.c).                                                   *)
(*                                                                         *)
(* Two execution contexts share the module's statics:                      *)
(*   - button_handle_interrupt runs in ISR context on every edge of PA4;   *)
(*   - button_handle_config_menu is polled from the main loop.             *)
(* The ISR is atomic with respect to the main loop; the main loop can be   *)
(* preempted by the ISR between any two statements.  The controller is     *)
(* therefore modelled statement by statement (one operator per source      *)
(* line, named after the line), and a whole poll is the run of these       *)
(* statements from entry to return.                                        *)
(***************************************************************************)
EXTENDS Integers, Sequences, FiniteSets, TLC

VARIABLES
    last_button_start_ticks,      \* button.c:10  uint16_t
    button_pressed,               \* button.c:11
    in_config_menu,               \* button.c:13
    in_config_menu_item,          \* button.c:14
    config_menu_index,            \* button.c:15  uint8_t
    config_item_index,            \* button.c:16  uint8_t
    config_short_press_pending,   \* button.c:17
    config_medium_press_pending,  \* button.c:18
    short_press_handler,          \* button.c:20  0 = no handler registered
    sysconfig,                    \* the persisted configuration words read and updated by the menu
    swrr_writes,                  \* number of writes of RSTCTRL.SWRR (software reset requests)
    pc,                           \* position of the main loop inside button_handle_config_menu
    isr_obs,                      \* what the last run of button_handle_interrupt read and did
    poll_obs,                     \* what the current/last run of button_handle_config_menu read and did
    unserved,                     \* per flag: a press was raised and no menu transition completed since
    current_state,                \* led.c:31  the driver's cache of what it programmed last
    chip,                         \* the LP5815: its registers, animation engine and power state
    led_obs                       \* the last two calls of the LED driver made outside the menu

vars == << last_button_start_ticks, button_pressed, in_config_menu, in_config_menu_item,
           config_menu_index, config_item_index, config_short_press_pending,
           config_medium_press_pending, short_press_handler, sysconfig, swrr_writes,
           pc, isr_obs, poll_obs, unserved, current_state, chip, led_obs >>

button_vars == << last_button_start_ticks, button_pressed, in_config_menu, in_config_menu_item,
                  config_menu_index, config_item_index, config_short_press_pending,
                  config_medium_press_pending, short_press_handler, sysconfig, swrr_writes,
                  pc, isr_obs, poll_obs, unserved >>

led_vars == << current_state, chip, led_obs >>

(***************************************************************************)
(* Program constants.                                                      *)
(***************************************************************************)
TickModulus == 65536
Uint8Modulus == 256
ShortMinTicks == 50
ShortMaxTicks == 1000
MediumMaxTicks == 3000
BlinkBrightness == 255
BlinkTOn == 5
BlinkTOff == 5
BlinkPause == 11

\* led.c:11-16  LedMode
LED_OFF == 0
LED_SOLID == 1
LED_BLINKING == 2
LED_BREATHING == 3

CHARGER_DISCONNECTED == "CHARGER_DISCONNECTED"
ChargerStates == {CHARGER_DISCONNECTED, "CHARGER_OTHER"}

Handlers == {0, 1}

(***************************************************************************)
(* Bounds and input samples.                                               *)
(***************************************************************************)
\* Largest stored word tried by the specification that sweeps the stored values.
MaxStored == 3100

\* Value rtc_get_ticks() returns at a press edge; from 65000 the counter wraps
\* before every release that is 536 or more ticks later.
StartSamples == {65000}

\* Elapsed ticks between press and release: one per branch of the classification
\* (Medium below the Short window, Short, Medium, Long).
DurSamples == {50, 999, 2999, 3000}

\* The stored configuration at power-up: a charging limit between two legal
\* values, the others legal.
DefaultConfig ==
    [chargingCurrentLimit |-> 1500, dcInputCurrentLimit |-> 3000,
     chargeWhenRigIsOn |-> 0, enableThermistor |-> 1]

InitConfigs == { DefaultConfig }

(***************************************************************************)
(* Observations (bookkeeping, not program state).                          *)
(***************************************************************************)
IsrObs0 ==
    [branch |-> "none", line |-> FALSE, ticks |-> <<>>, duration |-> <<>>,
     class |-> "none", calls |-> 0]
PollObs0 == [branch |-> "none", charger |-> <<>>, ret |-> <<>>, stores |-> <<>>, leds |-> <<>>]
Unserved0 == [short |-> FALSE, medium |-> FALSE]
LedObs0 == [op |-> "none", prev |-> "none", skipped |-> FALSE]

(***************************************************************************)
(* Input classifier: button_handle_interrupt.                              *)
(***************************************************************************)
\* A subtraction that takes the distance of the two readings, without the wrap.
PressDurationNoWrap(now, start) == IF now >= start THEN now - start ELSE start - now

\* button.c:162  uint16_t subtraction
PressDuration(now, start) == (now - start) % TickModulus

\* A classifier that lets the Short window start at 50 and end at 1000 inclusive
\* and Medium reach 3000.
ClassifyInclusive(d) ==
    IF d >= ShortMinTicks /\ d <= ShortMaxTicks THEN "Short"
    ELSE IF d <= MediumMaxTicks THEN "Medium"
    ELSE "Long"

\* button.c:165-175  the if / else-if / else on button_press_duration
Classify(d) ==
    IF d > ShortMinTicks /\ d < ShortMaxTicks THEN "Short"
    ELSE IF d < MediumMaxTicks THEN "Medium"
    ELSE "Long"

\* A dispatch that queues a short press for the menu even when the menu is idle.
DispatchAlwaysQueue(class, menu_active, handler) ==
    [ set_short  |-> class = "Short",
      set_medium |-> class = "Medium",
      calls      |-> 0,
      resets     |-> IF class = "Long" THEN 1 ELSE 0 ]

\* A dispatch whose long press also runs the medium branch before the reset.
DispatchLongFallsThrough(class, menu_active, handler) ==
    [ set_short  |-> class = "Short" /\ menu_active,
      set_medium |-> class \in {"Medium", "Long"},
      calls      |-> IF class = "Short" /\ ~menu_active /\ handler # 0 THEN 1 ELSE 0,
      resets     |-> IF class = "Long" THEN 1 ELSE 0 ]

\* A dispatch that also queues a short press while the menu is idle.
DispatchQueuesWhenIdle(class, menu_active, handler) ==
    [ set_short  |-> class = "Short",
      set_medium |-> class = "Medium",
      calls      |-> IF class = "Short" /\ ~menu_active /\ handler # 0 THEN 1 ELSE 0,
      resets     |-> IF class = "Long" THEN 1 ELSE 0 ]

\* button.c:165-179  what each classification does
Dispatch(class, menu_active, handler) ==
    [ set_short  |-> class = "Short" /\ menu_active,
      set_medium |-> class = "Medium",
      calls      |-> IF class = "Short" /\ ~menu_active /\ handler # 0 THEN 1 ELSE 0,
      resets     |-> IF class = "Long" THEN 1 ELSE 0 ]

\* button.c:156  which branch of the handler runs for a line level
IsrBranch(line, pressed) ==
    IF line /\ ~pressed THEN "press"
    ELSE IF pressed THEN "release"
    ELSE "ignored"

\* The ticks rtc_get_ticks() may return in the branch the handler takes (the
\* ignored branch does not read the clock).
RtcSamples(line) ==
    CASE IsrBranch(line, button_pressed) = "press"   -> StartSamples
      [] IsrBranch(line, button_pressed) = "release" ->
            { (last_button_start_ticks + d) % TickModulus : d \in DurSamples }
      [] OTHER -> {0}

AllTicks == 0 .. (TickModulus - 1)

\* button.c:153-181.  line: PORTA.IN & PIN4_bm; ticks: the value of rtc_get_ticks().
\* The run is recorded in isr_obs when it does not preempt a poll.
button_handle_interrupt(line, ticks) ==
    LET branch   == IsrBranch(line, button_pressed)
        released == branch = "release"
        d        == PressDuration(ticks, last_button_start_ticks)
        class    == Classify(d)
        act      == Dispatch(class, in_config_menu, short_press_handler)
    IN  /\ swrr_writes = 0
        /\ last_button_start_ticks' = IF branch = "press" THEN ticks ELSE last_button_start_ticks
        /\ button_pressed' = CASE branch = "press"   -> TRUE
                               [] branch = "release" -> FALSE
                               [] OTHER              -> button_pressed
        /\ config_short_press_pending' = (config_short_press_pending \/ (released /\ act.set_short))
        /\ config_medium_press_pending' = (config_medium_press_pending \/ (released /\ act.set_medium))
        /\ swrr_writes' = IF released THEN swrr_writes + act.resets ELSE swrr_writes
        /\ unserved' = [short  |-> unserved.short \/ (released /\ act.set_short),
                        medium |-> unserved.medium \/ (released /\ act.set_medium)]
        /\ isr_obs' = IF pc # "out" THEN IsrObs0
                      ELSE IF released
                           THEN [branch |-> branch, line |-> line, ticks |-> << ticks >>,
                                 duration |-> << d >>, class |-> class, calls |-> act.calls]
                           ELSE [IsrObs0 EXCEPT !.branch = branch, !.line = line,
                                                !.ticks = IF branch = "press" THEN << ticks >>
                                                          ELSE << >>]
        /\ poll_obs' = IF pc = "out" THEN PollObs0 ELSE poll_obs
        /\ UNCHANGED << in_config_menu, in_config_menu_item, config_menu_index,
                        config_item_index, short_press_handler, sysconfig, pc >>
        /\ UNCHANGED led_vars

\* button.c:27-29
button_set_short_press_handler(handler) ==
    /\ swrr_writes = 0
    /\ pc = "out"
    /\ short_press_handler' = handler
    /\ isr_obs' = IsrObs0
    /\ poll_obs' = PollObs0
    /\ UNCHANGED << last_button_start_ticks, button_pressed, in_config_menu, in_config_menu_item,
                    config_menu_index, config_item_index, config_short_press_pending,
                    config_medium_press_pending, sysconfig, swrr_writes, pc, unserved >>
    /\ UNCHANGED led_vars

(***************************************************************************)
(* LED driver: led.c.  A driver function maps a record d holding the       *)
(* driver's cache (current_state) and the chip to the record after the     *)
(* call.  The chip is what the driver's register writes make of it: data   *)
(* registers keep the last value written, the command registers reset,     *)
(* start and stop the animation engine and shut the chip down.             *)
(***************************************************************************)
\* Data registers the driver writes: 0x00 0x01 0x02 0x04 0x0A 0x0C 0x14-0x16
\* 0x18-0x1A 0x1C-0x24.
ChipRegs == {0, 1, 2, 4, 10, 12, 20, 21, 22, 24, 25, 26, 28, 29, 30, 31, 32, 33, 34, 35, 36}

\* led.c:38-39  the chip after the reset command: no animation, outputs dark.
ChipReset == [shutdown |-> FALSE, running |-> FALSE, regs |-> [r \in ChipRegs |-> 0]]

\* led.c:31  static LedState current_state, zero-initialised.
CurrentState0 ==
    [ mode |-> LED_OFF, red |-> FALSE, green |-> FALSE, blue |-> FALSE, brightness |-> 0,
      blink_t_on |-> 0, blink_t_off |-> 0, blink_count |-> 0, blink_pause |-> 0,
      breathing_speed |-> 0 ]

\* led.c:33-35  one register write, by what the driver's comments say it does:
\* 0x0E <- 0xCC reset, 0x0D <- 0x33 shutdown, 0x0F <- 0x55 update command,
\* 0x10 <- 0xFF start animation, 0x11 <- 0xAA stop animation.
led_write_register(d, reg, value) ==
    CASE reg = 14 -> IF value = 204 THEN [d EXCEPT !.chip = ChipReset] ELSE d
      [] reg = 13 -> IF value = 51 THEN [d EXCEPT !.chip.shutdown = TRUE] ELSE d
      [] reg = 15 -> d
      [] reg = 16 -> IF value = 255 THEN [d EXCEPT !.chip.running = TRUE] ELSE d
      [] reg = 17 -> IF value = 170 THEN [d EXCEPT !.chip.running = FALSE] ELSE d
      [] OTHER    -> [d EXCEPT !.chip.regs[reg] = value]

RECURSIVE Writes(_, _)
\* The register writes of ws, pairs << register, value >>, in order.
Writes(d, ws) ==
    IF ws = << >> THEN d
    ELSE Writes(led_write_register(d, ws[1][1], ws[1][2]), Tail(ws))

RECURSIVE BitOr(_, _)
\* The | of two unsigned values.
BitOr(a, b) ==
    IF a = 0 THEN b
    ELSE IF b = 0 THEN a
    ELSE (IF a % 2 = 1 \/ b % 2 = 1 THEN 1 ELSE 0) + 2 * BitOr(a \div 2, b \div 2)

\* led.c:176-185  output_enable
OutputEnable(red, green, blue) ==
    (IF blue THEN 1 ELSE 0) + (IF green THEN 2 ELSE 0) + (IF red THEN 4 ELSE 0)

\* led.c:249  speed << 4 | (speed + 6), passed as uint8_t
BreathingSlope(speed) == BitOr(speed * 16, speed + 6) % Uint8Modulus

\* led.c:37-64
led_init(d) ==
    Writes(d, << << 14, 204 >>, << 0, 3 >>, << 1, 0 >>, << 20, 100 >>, << 21, 25 >>,
                 << 22, 50 >>, << 2, 7 >>, << 15, 85 >>, << 0, 2 >> >>)

\* led.c:284-296
led_stop_animation(d) ==
    Writes(d, << << 17, 170 >>, << 4, 0 >>, << 15, 85 >>, << 0, 2 >> >>)

\* led.c:67  the "No change" test of led_off
OffNoChange(d) == d.current_state.mode = LED_OFF

\* led.c:66-81
led_off(d) ==
    IF OffNoChange(d) THEN d
    ELSE [Writes(led_stop_animation(d),
                 << << 24, 0 >>, << 25, 0 >>, << 26, 0 >>, << 0, 2 >> >>)
            EXCEPT !.current_state.mode = LED_OFF]

\* led.c:89-93  the "No change" test of led_set_color
ColorNoChange(d, red, green, blue, brightness) ==
    /\ d.current_state.mode = LED_SOLID
    /\ d.current_state.red = red
    /\ d.current_state.green = green
    /\ d.current_state.blue = blue
    /\ d.current_state.brightness = brightness

\* led.c:83-111
led_set_color(d, red, green, blue, brightness) ==
    IF brightness = 0 \/ (~red /\ ~green /\ ~blue) THEN led_off(d)
    ELSE IF ColorNoChange(d, red, green, blue, brightness) THEN d
    ELSE [Writes(led_stop_animation(d),
                 << << 24, IF blue THEN brightness ELSE 0 >>,
                    << 25, IF green THEN brightness ELSE 0 >>,
                    << 26, IF red THEN brightness ELSE 0 >>,
                    << 0, 3 >> >>)
            EXCEPT !.current_state.mode = LED_SOLID,
                   !.current_state.red = red,
                   !.current_state.green = green,
                   !.current_state.blue = blue,
                   !.current_state.brightness = brightness]

\* led.c:133-141  the "No change" test of led_set_blinking
BlinkingNoChange(d, red, green, blue, brightness, t_on, t_off, count, pause) ==
    /\ d.current_state.mode = LED_BLINKING
    /\ d.current_state.red = red
    /\ d.current_state.green = green
    /\ d.current_state.blue = blue
    /\ d.current_state.brightness = brightness
    /\ d.current_state.blink_t_on = t_on
    /\ d.current_state.blink_t_off = t_off
    /\ d.current_state.blink_count = count
    /\ d.current_state.blink_pause = pause

\* led.c:113-208
led_set_blinking(d, red, green, blue, brightness, t_on, t_off, count, pause) ==
    IF BlinkingNoChange(d, red, green, blue, brightness, t_on, t_off, count, pause) THEN d
    ELSE [Writes(d, << << 0, 3 >>, << 17, 170 >>, << 10, 1 >>, << 12, 3 >>,
                       << 28, pause >>, << 29, count >>,
                       << 30, brightness >>, << 31, brightness >>,
                       << 32, 0 >>, << 33, 0 >>, << 34, 0 >>,
                       << 35, t_on >>, << 36, t_off >>,
                       << 4, OutputEnable(red, green, blue) >>,
                       << 24, 0 >>, << 25, 0 >>, << 26, 0 >>,
                       << 15, 85 >>, << 16, 255 >> >>)
            EXCEPT !.current_state.mode = LED_BLINKING,
                   !.current_state.red = red,
                   !.current_state.green = green,
                   !.current_state.blue = blue,
                   !.current_state.brightness = brightness,
                   !.current_state.blink_t_on = t_on,
                   !.current_state.blink_t_off = t_off,
                   !.current_state.blink_count = count,
                   !.current_state.blink_pause = pause]

\* led.c:213-218  the "No change" test of led_set_breathing
BreathingNoChange(d, red, green, blue, brightness, speed) ==
    /\ d.current_state.mode = LED_BREATHING
    /\ d.current_state.red = red
    /\ d.current_state.green = green
    /\ d.current_state.blue = blue
    /\ d.current_state.brightness = brightness
    /\ d.current_state.breathing_speed = speed

\* led.c:210-282
led_set_breathing(d, red, green, blue, brightness, speed) ==
    IF BreathingNoChange(d, red, green, blue, brightness, speed) THEN d
    ELSE [Writes(d, << << 0, 3 >>, << 17, 170 >>, << 10, 1 >>, << 12, 3 >>,
                       << 28, 0 >>, << 29, 15 >>,
                       << 30, 0 >>, << 31, brightness >>, << 32, brightness >>,
                       << 33, 0 >>, << 34, 0 >>,
                       << 35, BreathingSlope(speed) >>, << 36, BreathingSlope(speed) >>,
                       << 4, OutputEnable(red, green, blue) >>,
                       << 24, 0 >>, << 25, 0 >>, << 26, 0 >>,
                       << 15, 85 >>, << 16, 255 >> >>)
            EXCEPT !.current_state.mode = LED_BREATHING,
                   !.current_state.red = red,
                   !.current_state.green = green,
                   !.current_state.blue = blue,
                   !.current_state.brightness = brightness,
                   !.current_state.breathing_speed = speed]

\* led.c:300-303
led_shutdown(d) == led_write_register(led_off(d), 13, 51)

\* led.c:305-315  the wake-up edges on SDA end the shutdown; then led_init()
led_wakeup(d) == led_init([d EXCEPT !.chip.shutdown = FALSE])

(***************************************************************************)
(* Menu controller: button_handle_config_menu, statement by statement.     *)
(* A statement operator maps the controller's view of the state (a record  *)
(* of the statics it touches, its program counter and the bookkeeping) to  *)
(* the state after the statement.                                          *)
(***************************************************************************)
Ctx ==
    [ in_config_menu              |-> in_config_menu,
      in_config_menu_item         |-> in_config_menu_item,
      config_menu_index           |-> config_menu_index,
      config_item_index           |-> config_item_index,
      config_short_press_pending  |-> config_short_press_pending,
      config_medium_press_pending |-> config_medium_press_pending,
      sysconfig                   |-> sysconfig,
      pc                          |-> pc,
      poll_obs                    |-> poll_obs,
      unserved                    |-> unserved,
      current_state               |-> current_state,
      chip                        |-> chip ]

Assign(s) ==
    /\ in_config_menu' = s.in_config_menu
    /\ in_config_menu_item' = s.in_config_menu_item
    /\ config_menu_index' = s.config_menu_index
    /\ config_item_index' = s.config_item_index
    /\ config_short_press_pending' = s.config_short_press_pending
    /\ config_medium_press_pending' = s.config_medium_press_pending
    /\ sysconfig' = s.sysconfig
    /\ pc' = s.pc
    /\ poll_obs' = s.poll_obs
    /\ unserved' = s.unserved
    /\ current_state' = s.current_state
    /\ chip' = s.chip
    /\ led_obs' = led_obs

\* button.c:74
CurrentValues == << 500, 1000, 2000, 3000 >>

\* An index into the table that is off by one.
current_values_shifted(i) == CurrentValues[((i + 1) % 4) + 1]

\* button.c:79  current_values[config_item_index]
current_values(i) == CurrentValues[i + 1]

\* The configuration store's update: the word is replaced by the value.
sysconfig_update_word(s, field, value) ==
    [s EXCEPT !.sysconfig[field] = value,
              !.poll_obs.stores = Append(@, << field, value >>)]

\* button.c:35, 38  the call led_set_blinking(...): the driver runs and the
\* call is recorded among the poll's LED commands.
CallSetBlinking(s, red, green, blue, brightness, t_on, t_off, count, pause) ==
    [led_set_blinking(s, red, green, blue, brightness, t_on, t_off, count, pause)
        EXCEPT !.poll_obs.leds = Append(@,
            << "led_set_blinking", red, green, blue, brightness, t_on, t_off, count, pause >>)]

\* button.c:52  the call led_wakeup()
CallWakeup(s) == [led_wakeup(s) EXCEPT !.poll_obs.leds = Append(@, << "led_wakeup" >>)]

\* A refresh that counts from zero.
button_config_menu_update_led_from_zero(s) ==
    IF s.in_config_menu_item
    THEN CallSetBlinking(s, FALSE, FALSE, TRUE, BlinkBrightness, BlinkTOn, BlinkTOff,
                         s.config_item_index, BlinkPause)
    ELSE CallSetBlinking(s, TRUE, TRUE, FALSE, BlinkBrightness, BlinkTOn, BlinkTOff,
                         s.config_menu_index, BlinkPause)

\* button.c:31-40
button_config_menu_update_led(s) ==
    IF s.in_config_menu_item
    THEN CallSetBlinking(s, FALSE, FALSE, TRUE, BlinkBrightness, BlinkTOn, BlinkTOff,
                         (s.config_item_index + 1) % Uint8Modulus, BlinkPause)
    ELSE CallSetBlinking(s, TRUE, TRUE, FALSE, BlinkBrightness, BlinkTOn, BlinkTOff,
                         (s.config_menu_index + 1) % Uint8Modulus, BlinkPause)

\* button.c:43
L43(s) == [s EXCEPT !.pc = IF ~s.in_config_menu THEN "L46" ELSE "L65"]

\* A guard that forgets the charger state.
EnterGuardNoCharger(medium_pending, cs) == medium_pending

\* button.c:46  the condition of the if
EnterGuard(medium_pending, cs) == medium_pending /\ cs = CHARGER_DISCONNECTED

\* button.c:46  charger_sm_get_state() is called only when the flag is set (&&)
L46(s, cs) ==
    LET enter == EnterGuard(s.config_medium_press_pending, cs) IN
    [s EXCEPT !.poll_obs.charger = IF s.config_medium_press_pending THEN << cs >> ELSE @,
              !.poll_obs.branch = IF enter THEN "idle_enter" ELSE "idle_stay",
              !.pc = IF enter THEN "L47" ELSE "L55"]

\* button.c:47
L47(s) == [s EXCEPT !.in_config_menu = TRUE, !.pc = "L48"]

\* button.c:48
L48(s) == [s EXCEPT !.in_config_menu_item = FALSE, !.pc = "L49"]

\* button.c:49
L49(s) == [s EXCEPT !.config_menu_index = 0, !.pc = "L50"]

\* button.c:50  the last assignment of the Idle -> MainMenu{0} transition
L50(s) == [s EXCEPT !.config_item_index = 0, !.unserved.medium = FALSE, !.pc = "L51"]

\* button.c:51
L51(s) == [s EXCEPT !.config_medium_press_pending = FALSE, !.pc = "L52"]

\* button.c:52
L52(s) == [CallWakeup(s) EXCEPT !.pc = "L53"]

\* button.c:53
L53(s) == [button_config_menu_update_led(s) EXCEPT !.pc = "L55"]

\* button.c:55
L55(s) == [s EXCEPT !.poll_obs.ret = << s.in_config_menu >>, !.pc = "out"]

\* button.c:65
L65(s) == [s EXCEPT !.pc = IF s.in_config_menu_item THEN "L67" ELSE "L101"]

\* An edit mode that looks at the short press first.
L67ShortFirst(s) ==
    IF s.config_short_press_pending
    THEN [s EXCEPT !.poll_obs.branch = "item_short", !.pc = "L73"]
    ELSE IF s.config_medium_press_pending
         THEN [s EXCEPT !.poll_obs.branch = "item_medium", !.pc = "L69"]
         ELSE [s EXCEPT !.poll_obs.branch = "item_none", !.pc = "L148"]

\* button.c:67
L67(s) ==
    IF s.config_medium_press_pending
    THEN [s EXCEPT !.poll_obs.branch = "item_medium", !.pc = "L69"]
    ELSE [s EXCEPT !.pc = "L71"]

\* button.c:69
L69(s) == [s EXCEPT !.config_medium_press_pending = FALSE, !.pc = "L70"]

\* Leaving edit mode closes the menu as well.
L70ClosesMenu(s) ==
    [s EXCEPT !.in_config_menu_item = FALSE, !.in_config_menu = FALSE,
              !.unserved.medium = FALSE, !.pc = "L148"]

\* button.c:70  the ItemEdit -> MainMenu transition
L70(s) == [s EXCEPT !.in_config_menu_item = FALSE, !.unserved.medium = FALSE, !.pc = "L148"]

\* button.c:71
L71(s) ==
    IF s.config_short_press_pending
    THEN [s EXCEPT !.poll_obs.branch = "item_short", !.pc = "L73"]
    ELSE [s EXCEPT !.poll_obs.branch = "item_none", !.pc = "L148"]

\* button.c:73  uint8_t increment
L73(s) == [s EXCEPT !.config_item_index = (@ + 1) % Uint8Modulus, !.pc = "L75"]

\* button.c:75  switch (config_menu_index)
L75(s) ==
    [s EXCEPT !.pc = CASE s.config_menu_index = 0 -> "L78"
                       [] s.config_menu_index = 1 -> "L83"
                       [] s.config_menu_index = 2 -> "L88"
                       [] s.config_menu_index = 3 -> "L93"
                       [] OTHER -> "L97"]

\* button.c:78
L78(s) == [s EXCEPT !.config_item_index = @ % 4, !.pc = "L79"]

\* button.c:79-80
L79(s) ==
    [sysconfig_update_word(s, "chargingCurrentLimit", current_values(s.config_item_index))
        EXCEPT !.unserved.short = FALSE, !.pc = "L97"]

\* button.c:83
L83(s) == [s EXCEPT !.config_item_index = @ % 4, !.pc = "L84"]

\* button.c:84-85
L84(s) ==
    [sysconfig_update_word(s, "dcInputCurrentLimit", current_values(s.config_item_index))
        EXCEPT !.unserved.short = FALSE, !.pc = "L97"]

\* An on/off parameter that wraps like a current limit.
L88Mod4(s) == [s EXCEPT !.config_item_index = @ % 4, !.pc = "L89"]

\* button.c:88
L88(s) == [s EXCEPT !.config_item_index = @ % 2, !.pc = "L89"]

\* button.c:89-90
L89(s) ==
    [sysconfig_update_word(s, "chargeWhenRigIsOn", s.config_item_index)
        EXCEPT !.unserved.short = FALSE, !.pc = "L97"]

\* button.c:93
L93(s) == [s EXCEPT !.config_item_index = @ % 2, !.pc = "L94"]

\* button.c:94-95
L94(s) ==
    [sysconfig_update_word(s, "enableThermistor", s.config_item_index)
        EXCEPT !.unserved.short = FALSE, !.pc = "L97"]

\* button.c:97
L97(s) == [s EXCEPT !.config_short_press_pending = FALSE, !.pc = "L148"]

\* A main menu that looks at the medium press first.
L101MediumFirst(s) ==
    IF s.config_medium_press_pending
    THEN [s EXCEPT !.poll_obs.branch = "main_medium", !.pc = "L107"]
    ELSE IF s.config_short_press_pending
         THEN [s EXCEPT !.poll_obs.branch = "main_short", !.pc = "L103"]
         ELSE [s EXCEPT !.poll_obs.branch = "main_none", !.pc = "L148"]

\* button.c:101
L101(s) ==
    IF s.config_short_press_pending
    THEN [s EXCEPT !.poll_obs.branch = "main_short", !.pc = "L103"]
    ELSE [s EXCEPT !.pc = "L105"]

\* A main menu of three entries.
L103Mod3(s) ==
    [s EXCEPT !.config_menu_index = (@ + 1) % 3, !.unserved.short = FALSE, !.pc = "L104"]

\* button.c:103  the MainMenu{m} -> MainMenu{m+1} transition
L103(s) ==
    [s EXCEPT !.config_menu_index = (@ + 1) % 4, !.unserved.short = FALSE, !.pc = "L104"]

\* button.c:104
L104(s) == [s EXCEPT !.config_short_press_pending = FALSE, !.pc = "L148"]

\* A main menu that enters edit mode without a medium press.
L105Unguarded(s) == [s EXCEPT !.poll_obs.branch = "main_medium", !.pc = "L107"]

\* button.c:105
L105(s) ==
    IF s.config_medium_press_pending
    THEN [s EXCEPT !.poll_obs.branch = "main_medium", !.pc = "L107"]
    ELSE [s EXCEPT !.poll_obs.branch = "main_none", !.pc = "L148"]

\* button.c:107
L107(s) == [s EXCEPT !.in_config_menu_item = TRUE, !.pc = "L108"]

\* button.c:108
L108(s) == [s EXCEPT !.config_medium_press_pending = FALSE, !.pc = "L111"]

\* button.c:111  switch (config_menu_index)
L111(s) ==
    [s EXCEPT !.pc = CASE s.config_menu_index = 0 -> "L114"
                       [] s.config_menu_index = 1 -> "L126"
                       [] s.config_menu_index = 2 -> "L138"
                       [] s.config_menu_index = 3 -> "L142"
                       [] OTHER -> "L148"]

\* A ladder that compares with < instead of <=.
L114Strict(s) ==
    LET v == s.sysconfig.chargingCurrentLimit IN
    [s EXCEPT !.config_item_index = IF v < 500 THEN 0
                                    ELSE IF v < 1000 THEN 1
                                    ELSE IF v < 2000 THEN 2
                                    ELSE 3,
              !.unserved.medium = FALSE,
              !.pc = "L148"]

\* button.c:114-123  charging current limit: index of the stored value
L114(s) ==
    LET v == s.sysconfig.chargingCurrentLimit IN
    [s EXCEPT !.config_item_index = IF v <= 500 THEN 0
                                    ELSE IF v <= 1000 THEN 1
                                    ELSE IF v <= 2000 THEN 2
                                    ELSE 3,
              !.unserved.medium = FALSE,
              !.pc = "L148"]

\* A DC input ladder that compares with < instead of <=.
L126Strict(s) ==
    LET v == s.sysconfig.dcInputCurrentLimit IN
    [s EXCEPT !.config_item_index = IF v < 500 THEN 0
                                    ELSE IF v < 1000 THEN 1
                                    ELSE IF v < 2000 THEN 2
                                    ELSE 3,
              !.unserved.medium = FALSE,
              !.pc = "L148"]

\* button.c:126-135  DC input current limit: index of the stored value
L126(s) ==
    LET v == s.sysconfig.dcInputCurrentLimit IN
    [s EXCEPT !.config_item_index = IF v <= 500 THEN 0
                                    ELSE IF v <= 1000 THEN 1
                                    ELSE IF v <= 2000 THEN 2
                                    ELSE 3,
              !.unserved.medium = FALSE,
              !.pc = "L148"]

\* button.c:138-139  charge while rig is on: non-zero is on
L138(s) ==
    [s EXCEPT !.config_item_index = IF s.sysconfig.chargeWhenRigIsOn # 0 THEN 1 ELSE 0,
              !.unserved.medium = FALSE,
              !.pc = "L148"]

\* button.c:142-143  thermistor: non-zero is on
L142(s) ==
    [s EXCEPT !.config_item_index = IF s.sysconfig.enableThermistor # 0 THEN 1 ELSE 0,
              !.unserved.medium = FALSE,
              !.pc = "L148"]

\* button.c:148
L148(s) == [button_config_menu_update_led(s) EXCEPT !.pc = "L150"]

\* button.c:150
L150(s) == [s EXCEPT !.poll_obs.ret = << s.in_config_menu >>, !.pc = "out"]

\* button.c:42-151  the statement at the program counter.  cs: what
\* charger_sm_get_state() returns if the statement calls it.
Stmt(s, cs) ==
    CASE s.pc = "L43"  -> L43(s)
      [] s.pc = "L46"  -> L46(s, cs)
      [] s.pc = "L47"  -> L47(s)
      [] s.pc = "L48"  -> L48(s)
      [] s.pc = "L49"  -> L49(s)
      [] s.pc = "L50"  -> L50(s)
      [] s.pc = "L51"  -> L51(s)
      [] s.pc = "L52"  -> L52(s)
      [] s.pc = "L53"  -> L53(s)
      [] s.pc = "L55"  -> L55(s)
      [] s.pc = "L65"  -> L65(s)
      [] s.pc = "L67"  -> L67(s)
      [] s.pc = "L69"  -> L69(s)
      [] s.pc = "L70"  -> L70(s)
      [] s.pc = "L71"  -> L71(s)
      [] s.pc = "L73"  -> L73(s)
      [] s.pc = "L75"  -> L75(s)
      [] s.pc = "L78"  -> L78(s)
      [] s.pc = "L79"  -> L79(s)
      [] s.pc = "L83"  -> L83(s)
      [] s.pc = "L84"  -> L84(s)
      [] s.pc = "L88"  -> L88(s)
      [] s.pc = "L89"  -> L89(s)
      [] s.pc = "L93"  -> L93(s)
      [] s.pc = "L94"  -> L94(s)
      [] s.pc = "L97"  -> L97(s)
      [] s.pc = "L101" -> L101(s)
      [] s.pc = "L103" -> L103(s)
      [] s.pc = "L104" -> L104(s)
      [] s.pc = "L105" -> L105(s)
      [] s.pc = "L107" -> L107(s)
      [] s.pc = "L108" -> L108(s)
      [] s.pc = "L111" -> L111(s)
      [] s.pc = "L114" -> L114(s)
      [] s.pc = "L126" -> L126(s)
      [] s.pc = "L138" -> L138(s)
      [] s.pc = "L142" -> L142(s)
      [] s.pc = "L148" -> L148(s)
      [] s.pc = "L150" -> L150(s)
      [] OTHER -> s

\* button.c:42  the call: the controller starts at its first statement
Enter(s) == [s EXCEPT !.pc = "L43", !.poll_obs = PollObs0]

RECURSIVE Run(_, _)
\* button.c:42-151  the statements from the program counter to the return
Run(s, cs) == IF s.pc = "out" THEN s ELSE Run(Stmt(s, cs), cs)

\* button.c:42-151  one whole poll, not preempted
button_handle_config_menu(cs) ==
    /\ swrr_writes = 0
    /\ pc = "out"
    /\ Assign(Run(Enter(Ctx), cs))
    /\ isr_obs' = IsrObs0
    /\ UNCHANGED << last_button_start_ticks, button_pressed, short_press_handler, swrr_writes >>

\* button.c:42  the main loop calls the controller
PollCall ==
    /\ swrr_writes = 0
    /\ pc = "out"
    /\ Assign(Enter(Ctx))
    /\ isr_obs' = IsrObs0
    /\ UNCHANGED << last_button_start_ticks, button_pressed, short_press_handler, swrr_writes >>

\* button.c:43-150  the main loop executes the controller's next statement
PollStmt ==
    /\ swrr_writes = 0
    /\ pc # "out"
    /\ \E cs \in ChargerStates : Assign(Stmt(Ctx, cs))
    /\ isr_obs' = IsrObs0
    /\ UNCHANGED << last_button_start_ticks, button_pressed, short_press_handler, swrr_writes >>

\* button.c:10-20  the statics' initialisers
Init ==
    /\ last_button_start_ticks = 0
    /\ button_pressed = FALSE
    /\ in_config_menu = FALSE
    /\ in_config_menu_item = FALSE
    /\ config_menu_index = 0
    /\ config_item_index = 0
    /\ config_short_press_pending = FALSE
    /\ config_medium_press_pending = FALSE
    /\ short_press_handler = 0
    /\ sysconfig \in InitConfigs
    /\ swrr_writes = 0
    /\ pc = "out"
    /\ isr_obs = IsrObs0
    /\ poll_obs = PollObs0
    /\ unserved = Unserved0
    /\ current_state = CurrentState0
    /\ chip = ChipReset
    /\ led_obs = LedObs0

Interrupt == \E line \in BOOLEAN : \E ticks \in RtcSamples(line) : button_handle_interrupt(line, ticks)

Register == \E handler \in Handlers : button_set_short_press_handler(handler)

Poll == \E cs \in ChargerStates : button_handle_config_menu(cs)

\* Edges, whole polls and handler registration in any order.
Next == Interrupt \/ Poll \/ Register

Spec == Init /\ [][Next]_vars

\* The same with the controller preemptible between any two statements.
NextPreempt == Interrupt \/ PollCall \/ PollStmt

SpecPreempt == Init /\ [][NextPreempt]_vars

(***************************************************************************)
(* Sweep of the classifier: every release tick after a press.              *)
(***************************************************************************)
\* Press ticks without and with a wrap of the counter before the release.
ClassifyStarts == {0, 65000}

SweepTicks(line) ==
    CASE IsrBranch(line, button_pressed) = "press"   -> ClassifyStarts
      [] IsrBranch(line, button_pressed) = "release" -> AllTicks
      [] OTHER -> {0}

InterruptSweep ==
    \E line \in BOOLEAN : \E ticks \in SweepTicks(line) : button_handle_interrupt(line, ticks)

SpecClassify == Init /\ [][InterruptSweep]_vars

(***************************************************************************)
(* Sweep of the stored words: the controller in MainMenu{m} with a medium  *)
(* press pending (the menu was entered, m short presses were served, a     *)
(* medium press was released at tick 65000 + 2999), for every stored word  *)
(* of parameter m up to MaxStored.                                         *)
(***************************************************************************)
RECURSIVE MenuLed(_)
\* The LED driver after the menu was entered and m short presses were served
\* in the main menu.
MenuLed(m) ==
    LET before == IF m = 0
                  THEN led_wakeup([current_state |-> CurrentState0, chip |-> ChipReset])
                  ELSE MenuLed(m - 1)
    IN  led_set_blinking(before, TRUE, TRUE, FALSE, BlinkBrightness, BlinkTOn, BlinkTOff,
                         m + 1, BlinkPause)

FieldOf(m) ==
    CASE m = 0 -> "chargingCurrentLimit"
      [] m = 1 -> "dcInputCurrentLimit"
      [] m = 2 -> "chargeWhenRigIsOn"
      [] m = 3 -> "enableThermistor"

InitEntry ==
    /\ last_button_start_ticks = 65000
    /\ button_pressed = FALSE
    /\ in_config_menu = TRUE
    /\ in_config_menu_item = FALSE
    /\ config_menu_index \in 0 .. 3
    /\ config_item_index = 0
    /\ config_short_press_pending = FALSE
    /\ config_medium_press_pending = TRUE
    /\ short_press_handler = 0
    /\ \E v \in 0 .. MaxStored :
          sysconfig = [DefaultConfig EXCEPT ![FieldOf(config_menu_index)] = v]
    /\ swrr_writes = 0
    /\ pc = "out"
    /\ isr_obs = [branch |-> "release", line |-> FALSE, ticks |-> << 2463 >>,
                  duration |-> << 2999 >>,
                  class |-> "Medium", calls |-> 0]
    /\ poll_obs = PollObs0
    /\ unserved = [short |-> FALSE, medium |-> TRUE]
    /\ current_state = MenuLed(config_menu_index).current_state
    /\ chip = MenuLed(config_menu_index).chip
    /\ led_obs = LedObs0

SpecEntry == InitEntry /\ [][Poll]_vars

(***************************************************************************)
(* Edges and whole polls over configurations whose stored words are not    *)
(* all legal values of their parameter.                                    *)
(***************************************************************************)
StoredConfigs ==
    { [ chargingCurrentLimit |-> 0, dcInputCurrentLimit |-> 65535,
        chargeWhenRigIsOn |-> 2, enableThermistor |-> 65535 ],
      [ chargingCurrentLimit |-> 2500, dcInputCurrentLimit |-> 499,
        chargeWhenRigIsOn |-> 0, enableThermistor |-> 1 ] }

InitStored ==
    /\ last_button_start_ticks = 0
    /\ button_pressed = FALSE
    /\ in_config_menu = FALSE
    /\ in_config_menu_item = FALSE
    /\ config_menu_index = 0
    /\ config_item_index = 0
    /\ config_short_press_pending = FALSE
    /\ config_medium_press_pending = FALSE
    /\ short_press_handler = 0
    /\ sysconfig \in StoredConfigs
    /\ swrr_writes = 0
    /\ pc = "out"
    /\ isr_obs = IsrObs0
    /\ poll_obs = PollObs0
    /\ unserved = Unserved0
    /\ current_state = CurrentState0
    /\ chip = ChipReset
    /\ led_obs = LedObs0

NextStored == Interrupt \/ Poll

SpecStored == InitStored /\ [][NextStored]_vars

(***************************************************************************)
(* The LED driver on its own: its seven entry points called in any order   *)
(* by the rest of the firmware.  As led.c:298 demands, a chip that was     *)
(* shut down is woken with led_wakeup() before anything else is called.    *)
(***************************************************************************)
\* Colours << red, green, blue >>: the menu's yellow, the editor's blue, none.
LedColours == { << TRUE, TRUE, FALSE >>, << FALSE, FALSE, TRUE >>, << FALSE, FALSE, FALSE >> }

LedBrightness == {0, 255}

BlinkCounts == {1, 2}

BreathingSpeeds == {1, 9}

LedCtx == [current_state |-> current_state, chip |-> chip]

\* The call op returned with the driver in d; skipped: it returned at a
\* "No change" test.
LedReturn(op, d, skipped) ==
    /\ current_state' = d.current_state
    /\ chip' = d.chip
    /\ led_obs' = [op |-> op, prev |-> led_obs.op, skipped |-> skipped]
    /\ UNCHANGED button_vars

LedInit ==
    /\ ~chip.shutdown
    /\ LedReturn("led_init", led_init(LedCtx), FALSE)

LedOff ==
    /\ ~chip.shutdown
    /\ LedReturn("led_off", led_off(LedCtx), OffNoChange(LedCtx))

LedSetColor ==
    /\ ~chip.shutdown
    /\ \E c \in LedColours, brightness \in LedBrightness :
          LedReturn("led_set_color", led_set_color(LedCtx, c[1], c[2], c[3], brightness),
                    IF brightness = 0 \/ (~c[1] /\ ~c[2] /\ ~c[3])
                    THEN OffNoChange(LedCtx)
                    ELSE ColorNoChange(LedCtx, c[1], c[2], c[3], brightness))

LedSetBlinking ==
    /\ ~chip.shutdown
    /\ \E c \in LedColours, count \in BlinkCounts :
          LedReturn("led_set_blinking",
                    led_set_blinking(LedCtx, c[1], c[2], c[3], BlinkBrightness,
                                     BlinkTOn, BlinkTOff, count, BlinkPause),
                    BlinkingNoChange(LedCtx, c[1], c[2], c[3], BlinkBrightness,
                                     BlinkTOn, BlinkTOff, count, BlinkPause))

LedSetBreathing ==
    /\ ~chip.shutdown
    /\ \E c \in LedColours, speed \in BreathingSpeeds :
          LedReturn("led_set_breathing",
                    led_set_breathing(LedCtx, c[1], c[2], c[3], BlinkBrightness, speed),
                    BreathingNoChange(LedCtx, c[1], c[2], c[3], BlinkBrightness, speed))

LedShutdown ==
    /\ ~chip.shutdown
    /\ LedReturn("led_shutdown", led_shutdown(LedCtx), FALSE)

\* led_wakeup() is what a caller does with a chip it shut down, and may do anyway.
LedWakeup ==
    /\ chip.shutdown \in BOOLEAN
    /\ LedReturn("led_wakeup", led_wakeup(LedCtx), FALSE)

NextLed ==
    \/ LedInit
    \/ LedOff
    \/ LedSetColor
    \/ LedSetBlinking
    \/ LedSetBreathing
    \/ LedShutdown
    \/ LedWakeup

SpecLed == Init /\ [][NextLed]_vars

(***************************************************************************)
(* Properties.                                                             *)
(***************************************************************************)
\* The step is a run of button_handle_interrupt (recorded between polls).
IsrStep == isr_obs'.branch # "none"

\* The step is a whole poll of button_handle_config_menu.
PollStep == poll_obs'.branch # "none"

MenuState == << in_config_menu, in_config_menu_item, config_menu_index, config_item_index >>

\* C1: at a release edge the press duration d (0..65535) is classified Short
\* exactly when 50 < d < 1000, Medium exactly when d <= 50 or 1000 <= d < 3000,
\* Long exactly when d >= 3000; exactly one class applies.  The class shows in
\* what the edge does: Medium raises medium_pending, Long (and only Long)
\* requests the reset.
C1_Classification ==
    isr_obs.branch = "release" =>
        LET d == isr_obs.duration[1]
            c == isr_obs.class
        IN  /\ d \in 0 .. 65535
            /\ c \in {"Short", "Medium", "Long"}
            /\ (c = "Short")  <=> (50 < d /\ d < 1000)
            /\ (c = "Medium") <=> (d <= 50 \/ (1000 <= d /\ d < 3000))
            /\ (c = "Long")   <=> (d >= 3000)
            /\ (c = "Medium") => config_medium_press_pending
            /\ (c = "Long")   <=> (swrr_writes = 1)

\* C1 witness: a release 50 ticks after the press was classified Medium.
C1_Witness ==
    /\ isr_obs.branch = "release"
    /\ isr_obs.duration = << 50 >>
    /\ isr_obs.class = "Medium"
    /\ config_medium_press_pending

\* C2 (as claimed): an edge that finds the classifier already in the matching
\* state (line pressed while button_pressed, line released while not
\* button_pressed) changes neither button_pressed, last_button_start_ticks nor
\* a pending flag, calls no handler and requests no reset.
C2_MatchingEdgeIsNoOp ==
    [][ (IsrStep /\ (isr_obs'.line <=> button_pressed))
            => /\ UNCHANGED << button_pressed, last_button_start_ticks,
                               config_short_press_pending, config_medium_press_pending,
                               swrr_writes >>
               /\ isr_obs'.calls = 0 ]_vars

\* C3 (as claimed): a poll in Idle with medium_pending set while the charger is
\* not disconnected leaves the menu inactive, returns false and leaves
\* medium_pending cleared.
C3_IgnoredMediumIsConsumed ==
    [][ (PollStep /\ ~in_config_menu /\ config_medium_press_pending
                  /\ poll_obs'.charger # << CHARGER_DISCONNECTED >>)
            => /\ ~in_config_menu'
               /\ poll_obs'.ret = << FALSE >>
               /\ ~config_medium_press_pending' ]_vars

\* C4: in_config_menu becomes true only in a poll that finds medium_pending set
\* and the charger disconnected; that poll enters MainMenu{0}, clears
\* medium_pending, wakes the LED and returns true.  Every other poll in Idle
\* leaves the menu state and the flags alone and returns false.
C4_LeaveIdle ==
    [][ /\ (~in_config_menu /\ in_config_menu') => PollStep
        /\ (PollStep /\ ~in_config_menu) =>
              IF config_medium_press_pending /\ poll_obs'.charger = << CHARGER_DISCONNECTED >>
              THEN /\ in_config_menu' /\ ~in_config_menu_item'
                   /\ config_menu_index' = 0
                   /\ ~config_medium_press_pending'
                   /\ Len(poll_obs'.leds) >= 1 /\ poll_obs'.leds[1] = << "led_wakeup" >>
                   /\ poll_obs'.ret = << TRUE >>
              ELSE /\ UNCHANGED MenuState
                   /\ ~in_config_menu'
                   /\ UNCHANGED << config_short_press_pending, config_medium_press_pending >>
                   /\ poll_obs'.leds = << >>
                   /\ poll_obs'.ret = << FALSE >> ]_vars

\* C4 witness: the poll that opened the menu.
C4_Witness ==
    /\ poll_obs.branch = "idle_enter"
    /\ poll_obs.charger = << CHARGER_DISCONNECTED >>
    /\ in_config_menu /\ ~in_config_menu_item /\ config_menu_index = 0
    /\ poll_obs.ret = << TRUE >>

\* C5: a release classified Short never touches medium_pending; with the menu
\* active it sets short_pending and calls no handler; with the menu idle it
\* calls the registered handler exactly once (not at all if none is
\* registered) and short_pending is false afterwards.
C5_ShortRouting ==
    [][ (IsrStep /\ isr_obs'.class = "Short")
            => /\ UNCHANGED config_medium_press_pending
               /\ IF in_config_menu
                  THEN config_short_press_pending' /\ isr_obs'.calls = 0
                  ELSE /\ ~config_short_press_pending'
                       /\ isr_obs'.calls = (IF short_press_handler # 0 THEN 1 ELSE 0) ]_vars

\* C5 witness: a short press with the menu idle called the registered handler.
C5_Witness ==
    /\ isr_obs.class = "Short"
    /\ isr_obs.calls = 1
    /\ ~in_config_menu /\ ~config_short_press_pending

\* C6 (as claimed): a release after 3000 or more ticks requests the reset once
\* and changes nothing else, button_pressed and last_button_start_ticks
\* included.
C6_LongChangesNothing ==
    [][ (IsrStep /\ isr_obs'.branch = "release" /\ isr_obs'.duration[1] >= 3000)
            => /\ swrr_writes' = swrr_writes + 1
               /\ isr_obs'.calls = 0
               /\ UNCHANGED << config_short_press_pending, config_medium_press_pending,
                               MenuState, sysconfig, last_button_start_ticks >>
               /\ UNCHANGED button_pressed ]_vars

\* C6 (amended): a release after 3000 or more ticks requests the reset once,
\* calls no handler and changes neither flag, the menu state, the stored
\* configuration nor last_button_start_ticks; button_pressed is cleared.
C6_LongResetsOnce ==
    [][ (IsrStep /\ isr_obs'.branch = "release" /\ isr_obs'.duration[1] >= 3000)
            => /\ swrr_writes' = swrr_writes + 1
               /\ isr_obs'.calls = 0
               /\ UNCHANGED << config_short_press_pending, config_medium_press_pending,
                               MenuState, sysconfig, last_button_start_ticks >>
               /\ button_pressed /\ ~button_pressed' ]_vars

\* C6 witness: a long press was released and the reset requested.
C6_Witness ==
    /\ isr_obs.branch = "release"
    /\ isr_obs.class = "Long"
    /\ isr_obs.duration = << 3000 >>
    /\ swrr_writes = 1

\* C7: a poll entered with both flags set consumes exactly one: in MainMenu the
\* short press (menu_index advances, medium_pending stays set), in ItemEdit the
\* medium press (back to MainMenu, short_pending stays set, nothing stored).
C7_OneFlagPerPoll ==
    [][ (PollStep /\ in_config_menu /\ config_short_press_pending /\ config_medium_press_pending)
            => IF ~in_config_menu_item
               THEN /\ config_menu_index' = (config_menu_index + 1) % 4
                    /\ ~in_config_menu_item'
                    /\ UNCHANGED config_item_index
                    /\ ~config_short_press_pending'
                    /\ config_medium_press_pending'
                    /\ poll_obs'.stores = << >>
               ELSE /\ ~in_config_menu_item'
                    /\ UNCHANGED << config_menu_index, config_item_index >>
                    /\ ~config_medium_press_pending'
                    /\ config_short_press_pending'
                    /\ poll_obs'.stores = << >> /\ UNCHANGED sysconfig ]_vars

\* C7 witness: a poll in MainMenu served the short press and left the medium
\* press pending.
C7_Witness ==
    /\ poll_obs.branch = "main_short"
    /\ ~in_config_menu_item
    /\ config_medium_press_pending /\ ~config_short_press_pending

\* C8 (as claimed): whenever the controller is not inside a poll, a press the
\* classifier raised and for which no menu transition has completed since is
\* still pending: the controller never erases a press it has not acted on.
C8_NoPressErased ==
    pc = "out" =>
        /\ unserved.short => config_short_press_pending
        /\ unserved.medium => config_medium_press_pending

\* Under preemption the direction of every flag change is as the design says:
\* a flag rises only in a step of the interrupt handler (the controller's
\* program counter does not move) and falls only in one of the controller's
\* clearing statements.
FlagDirections ==
    [][ /\ (~config_short_press_pending /\ config_short_press_pending') => pc' = pc
        /\ (~config_medium_press_pending /\ config_medium_press_pending') => pc' = pc
        /\ (config_short_press_pending /\ ~config_short_press_pending') => pc \in {"L97", "L104"}
        /\ (config_medium_press_pending /\ ~config_medium_press_pending')
              => pc \in {"L51", "L69", "L108"} ]_vars

C9_Modulus(m) == IF m \in {0, 1} THEN 4 ELSE 2

C9_ValueOf(m, i) ==
    IF m \in {0, 1}
    THEN (CASE i = 0 -> 500 [] i = 1 -> 1000 [] i = 2 -> 2000 [] i = 3 -> 3000)
    ELSE i

\* C9: in ItemEdit{m,i} with only short_pending set, one poll moves to
\* ItemEdit{m,(i+1) mod modulus(m)}, clears short_pending and makes exactly one
\* store update: parameter m gets value_of(m,(i+1) mod modulus(m)).
C9_ItemAdvance ==
    [][ (PollStep /\ in_config_menu /\ in_config_menu_item
                  /\ config_short_press_pending /\ ~config_medium_press_pending)
            => LET m == config_menu_index
                   j == (config_item_index + 1) % C9_Modulus(m)
               IN  /\ in_config_menu' /\ in_config_menu_item'
                   /\ config_menu_index' = m
                   /\ config_item_index' = j
                   /\ ~config_short_press_pending' /\ ~config_medium_press_pending'
                   /\ poll_obs'.stores = << << FieldOf(m), C9_ValueOf(m, j) >> >> ]_vars

\* C9 witness: the charging current limit wrapped from index 3 to index 0 and
\* 500 was stored.
C9_Witness ==
    /\ poll_obs.branch = "item_short"
    /\ config_menu_index = 0 /\ config_item_index = 0
    /\ poll_obs.stores = << << "chargingCurrentLimit", 500 >> >>

C10_NearestIndex(m, v) ==
    IF m \in {0, 1}
    THEN (IF v <= 500 THEN 0 ELSE IF v <= 1000 THEN 1 ELSE IF v <= 2000 THEN 2 ELSE 3)
    ELSE (IF v # 0 THEN 1 ELSE 0)

\* C10: in MainMenu{m} with only medium_pending set, one poll moves to
\* ItemEdit{m, nearest_index(m, stored value of m)}, clears medium_pending and
\* stores nothing.
C10_EnterItem ==
    [][ (PollStep /\ in_config_menu /\ ~in_config_menu_item
                  /\ config_medium_press_pending /\ ~config_short_press_pending)
            => LET m == config_menu_index IN
               /\ in_config_menu' /\ in_config_menu_item'
               /\ config_menu_index' = m
               /\ config_item_index' = C10_NearestIndex(m, sysconfig[FieldOf(m)])
               /\ ~config_medium_press_pending' /\ ~config_short_press_pending'
               /\ poll_obs'.stores = << >>
               /\ UNCHANGED sysconfig ]_vars

\* C10 witness: a stored charging current limit of 1500 entered at index 2.
C10_Witness ==
    /\ poll_obs.branch = "main_medium"
    /\ in_config_menu_item
    /\ config_menu_index = 0
    /\ sysconfig.chargingCurrentLimit = 1500
    /\ config_item_index = 2

C11_Legal == {500, 1000, 2000, 3000}

C11_IndexOf(x) == CHOOSE i \in 0 .. 3 : C9_ValueOf(0, i) = x

\* The index of the largest legal value <= v; the index of 3000 if there is none.
C11_LargestBelow(v) ==
    LET below == {x \in C11_Legal : x <= v} IN
    IF below = {} THEN 3
    ELSE C11_IndexOf(CHOOSE x \in below : \A y \in below : y <= x)

\* The index of the smallest legal value >= v; the index of 3000 if there is none.
C11_SmallestAbove(v) ==
    LET above == {x \in C11_Legal : x >= v} IN
    IF above = {} THEN 3
    ELSE C11_IndexOf(CHOOSE x \in above : \A y \in above : x <= y)

\* C11 (as claimed): entering ItemEdit for the charging current limit or the DC
\* input current limit selects the index of the largest legal value <= the
\* stored value, and the index of 3000 when no legal value is <= it.
C11_EntersAtLargestBelow ==
    [][ (PollStep /\ in_config_menu /\ ~in_config_menu_item
                  /\ in_config_menu_item' /\ config_menu_index \in {0, 1})
            => config_item_index' = C11_LargestBelow(sysconfig[FieldOf(config_menu_index)]) ]_vars

\* C11 (amended): entering ItemEdit for the charging current limit or the DC
\* input current limit selects the index of the smallest legal value >= the
\* stored value, and the index of 3000 when the stored value exceeds them all.
C11_EntersAtSmallestAbove ==
    [][ (PollStep /\ in_config_menu /\ ~in_config_menu_item
                  /\ in_config_menu_item' /\ config_menu_index \in {0, 1})
            => /\ config_menu_index' = config_menu_index
               /\ config_item_index' = C11_SmallestAbove(sysconfig[FieldOf(config_menu_index)]) ]_vars

\* C11 witness: a stored DC input current limit of 400, below every legal
\* value, entered at index 0 (500).
C11_Witness ==
    /\ poll_obs.branch = "main_medium"
    /\ in_config_menu_item
    /\ config_menu_index = 1
    /\ sysconfig.dcInputCurrentLimit = 400
    /\ config_item_index = 0

\* C12: in ItemEdit{m,i} with medium_pending set, one poll moves to MainMenu{m}
\* with menu_index unchanged, clears medium_pending and makes no store update:
\* every stored parameter has the value it had before the poll.
C12_LeaveItem ==
    [][ (PollStep /\ in_config_menu /\ in_config_menu_item /\ config_medium_press_pending)
            => /\ in_config_menu' /\ ~in_config_menu_item'
               /\ config_menu_index' = config_menu_index
               /\ ~config_medium_press_pending'
               /\ poll_obs'.stores = << >>
               /\ \A f \in DOMAIN sysconfig : sysconfig'[f] = sysconfig[f] ]_vars

\* C12 witness: a poll left the edit mode of parameter 2 for MainMenu{2}.
C12_Witness ==
    /\ poll_obs.branch = "item_medium"
    /\ in_config_menu /\ ~in_config_menu_item
    /\ config_menu_index = 2
    /\ ~config_medium_press_pending
    /\ poll_obs.stores = << >>

\* One poll of the controller in state s with a short press pending.
C13_ShortPoll(s) ==
    Run(Enter([s EXCEPT !.config_short_press_pending = TRUE]), CHARGER_DISCONNECTED)

\* C13: in MainMenu{m} with short_pending set, one poll moves to
\* MainMenu{(m+1) mod 4} (MainMenu{3} to MainMenu{0}), clears short_pending,
\* stays out of ItemEdit and makes no store update; four consecutive such
\* polls return to the menu_index they started from.
C13_MainAdvance ==
    [][ (PollStep /\ in_config_menu /\ ~in_config_menu_item /\ config_short_press_pending)
            => /\ config_menu_index \in 0 .. 3
               /\ config_menu_index' = (IF config_menu_index = 3 THEN 0 ELSE config_menu_index + 1)
               /\ in_config_menu' /\ ~in_config_menu_item'
               /\ ~config_short_press_pending'
               /\ poll_obs'.stores = << >> /\ UNCHANGED sysconfig
               /\ LET s4 == C13_ShortPoll(C13_ShortPoll(C13_ShortPoll(C13_ShortPoll(Ctx)))) IN
                   /\ s4.config_menu_index = config_menu_index
                   /\ ~s4.in_config_menu_item
                   /\ s4.sysconfig = sysconfig ]_vars

\* C13 witness: a poll moved from MainMenu{3} round to MainMenu{0} (the menu
\* opens at 0, so index 3 was reached by three such polls before).
C13_Witness ==
    /\ poll_obs.branch = "main_short"
    /\ in_config_menu /\ ~in_config_menu_item
    /\ config_menu_index = 0
    /\ ~config_short_press_pending /\ ~config_medium_press_pending
    /\ poll_obs.stores = << >>

\* C14: a poll entered with both flags false, in any menu state and for any
\* charger state, leaves the menu state and both flags unchanged, makes no
\* store update and requests no reset; a second such poll leaves everything
\* as the first one left it.
C14_IdlePollIsNoOp ==
    [][ (PollStep /\ ~config_short_press_pending /\ ~config_medium_press_pending)
            => /\ UNCHANGED << MenuState, config_short_press_pending,
                               config_medium_press_pending, sysconfig, swrr_writes >>
               /\ poll_obs'.stores = << >>
               /\ \A cs \in ChargerStates : Run(Enter(Ctx'), cs) = Ctx' ]_vars

\* C14 witness: a poll in ItemEdit found no press pending.
C14_Witness ==
    /\ poll_obs.branch = "item_none"
    /\ in_config_menu /\ in_config_menu_item
    /\ ~config_short_press_pending /\ ~config_medium_press_pending
    /\ poll_obs.stores = << >>

\* C15: at every poll boundary menu_index is in 0..3 and, in ItemEdit,
\* item_index is a legal index of the selected parameter: below 4 for the two
\* current limits, below 2 for the two on/off parameters, whatever words the
\* configuration store holds.
C15_LegalIndices ==
    pc = "out" =>
        /\ config_menu_index \in 0 .. 3
        /\ (in_config_menu /\ in_config_menu_item) =>
              /\ config_item_index >= 0
              /\ config_menu_index \in {0, 1} => config_item_index < 4
              /\ config_menu_index \in {2, 3} => config_item_index < 2

\* C15 witness: edit mode of the thermistor switch was entered over a stored
\* word of 65535 and item_index is 1.
C15_Witness ==
    /\ pc = "out"
    /\ poll_obs.branch = "main_medium"
    /\ in_config_menu /\ in_config_menu_item
    /\ config_menu_index = 3
    /\ sysconfig.enableThermistor = 65535
    /\ config_item_index = 1

\* C16: once the menu is active no edge, poll or charger state makes it
\* inactive again: in_config_menu never falls, every poll with the menu active
\* returns true, and every poll returns whether the menu is active after it.
\* What ends the active menu is the reset a Long press requests.
C16_MenuStaysActive ==
    [][ /\ in_config_menu => in_config_menu'
        /\ PollStep => poll_obs'.ret = << in_config_menu' >>
        /\ (PollStep /\ in_config_menu) => poll_obs'.ret = << TRUE >>
        /\ (IsrStep /\ in_config_menu /\ isr_obs'.class = "Long") => swrr_writes' = 1 ]_vars

\* C16 witness: with the menu active and in edit mode, a poll that found the
\* charger state irrelevant served a short press and returned true.
C16_Witness ==
    /\ poll_obs.branch = "item_short"
    /\ poll_obs.charger = << >>
    /\ poll_obs.ret = << TRUE >>
    /\ in_config_menu

\* The pattern a blink command asks for: colour, brightness, timing and count.
C17_Pattern(red, green, blue, count) ==
    << "led_set_blinking", red, green, blue, 255, 5, 5, count, 11 >>

\* C17: after every poll that leaves the menu active the last LED command of
\* the poll encodes the state reached: in ItemEdit blue with repeat count
\* item_index + 1, in MainMenu yellow (red and green) with repeat count
\* menu_index + 1, the same brightness and on/off/pause timing in both; a poll
\* that stays Idle commands nothing.
C17_LedEncodesState ==
    [][ PollStep =>
          IF in_config_menu'
          THEN /\ poll_obs'.leds # << >>
               /\ poll_obs'.leds[Len(poll_obs'.leds)] =
                      (IF in_config_menu_item'
                       THEN C17_Pattern(FALSE, FALSE, TRUE, config_item_index' + 1)
                       ELSE C17_Pattern(TRUE, TRUE, FALSE, config_menu_index' + 1))
          ELSE poll_obs'.leds = << >> ]_vars

\* C17 witness: the poll that entered edit mode at index 2 commanded three
\* blue blinks.
C17_Witness ==
    /\ poll_obs.branch = "main_medium"
    /\ in_config_menu_item /\ config_item_index = 2
    /\ poll_obs.leds = << C17_Pattern(FALSE, FALSE, TRUE, 3) >>

C18_ClassOf(d) ==
    IF 50 < d /\ d < 1000 THEN "Short" ELSE IF d < 3000 THEN "Medium" ELSE "Long"

\* The ticks elapsed from a press at clock reading s to a release at clock
\* reading t, the 16-bit clock having wrapped at most once in between.
C18_Elapsed(s, t) == IF t >= s THEN t - s ELSE (65536 - s) + t

\* C18: the duration of a press is (release tick - press tick) mod 2^16: it is
\* the number of ticks elapsed whether or not the counter wrapped between the
\* two edges, and the classification is the one of the elapsed ticks alone.
C18_WrapCorrectDuration ==
    isr_obs.branch = "release" =>
        LET s == last_button_start_ticks
            t == isr_obs.ticks[1]
            d == C18_Elapsed(s, t)
        IN  /\ d \in 0 .. 65535
            /\ (s + d) % 65536 = t
            /\ isr_obs.duration = << d >>
            /\ isr_obs.class = C18_ClassOf(d)

\* C18 witness: a press at tick 65000 released at tick 464, the counter having
\* wrapped, lasted 1000 ticks and was classified Medium.
C18_Witness ==
    /\ isr_obs.branch = "release"
    /\ last_button_start_ticks = 65000
    /\ isr_obs.ticks = << 464 >>
    /\ isr_obs.duration = << 1000 >>
    /\ isr_obs.class = "Medium"

\* C19: in every reachable state, whatever statement of a poll an interrupt
\* preempts, short_pending implies in_config_menu: no short press is left
\* pending while the controller is Idle.
C19_ShortPendingOnlyInMenu ==
    config_short_press_pending => in_config_menu

\* C19 witness: an interrupt preempted the poll that opens the menu right
\* after it set in_config_menu (button.c:47) and queued a short press.
C19_Witness ==
    /\ pc = "L48"
    /\ in_config_menu
    /\ config_short_press_pending
    /\ config_medium_press_pending

\* The chip drives no LED: shut down, in standby, or enabled with the manual
\* PWM at zero and no animation on any output.
C20_ChipDark(c) ==
    \/ c.shutdown
    \/ c.regs[0] % 2 = 0
    \/ /\ c.regs[24] = 0 /\ c.regs[25] = 0 /\ c.regs[26] = 0
       /\ (~c.running \/ c.regs[4] = 0)

\* The chip holds the animation the driver programs for colour << red, green,
\* blue >> with the pattern registers 0x1C..0x24 equal to pattern, and runs it.
C20_Animates(c, red, green, blue, pattern) ==
    /\ ~c.shutdown
    /\ c.regs[0] = 3
    /\ c.running
    /\ c.regs[10] = 1 /\ c.regs[12] = 3
    /\ c.regs[4] = OutputEnable(red, green, blue)
    /\ << c.regs[28], c.regs[29], c.regs[30], c.regs[31], c.regs[32], c.regs[33],
          c.regs[34], c.regs[35], c.regs[36] >> = pattern
    /\ c.regs[24] = 0 /\ c.regs[25] = 0 /\ c.regs[26] = 0

\* The chip c is programmed with what the cache st says.
C20_Shows(c, st) ==
    CASE st.mode = LED_OFF -> C20_ChipDark(c)
      [] st.mode = LED_SOLID ->
            /\ ~c.shutdown
            /\ c.regs[0] = 3
            /\ (~c.running \/ c.regs[4] = 0)
            /\ c.regs[24] = (IF st.blue THEN st.brightness ELSE 0)
            /\ c.regs[25] = (IF st.green THEN st.brightness ELSE 0)
            /\ c.regs[26] = (IF st.red THEN st.brightness ELSE 0)
      [] st.mode = LED_BLINKING ->
            C20_Animates(c, st.red, st.green, st.blue,
                         << st.blink_pause, st.blink_count, st.brightness, st.brightness,
                            0, 0, 0, st.blink_t_on, st.blink_t_off >>)
      [] st.mode = LED_BREATHING ->
            C20_Animates(c, st.red, st.green, st.blue,
                         << 0, 15, 0, st.brightness, st.brightness, 0, 0,
                            BreathingSlope(st.breathing_speed),
                            BreathingSlope(st.breathing_speed) >>)

\* C20 (as claimed): after any sequence of led_init, led_off, led_set_color,
\* led_set_blinking, led_set_breathing, led_shutdown and led_wakeup the cached
\* current_state agrees with what is programmed into the chip.
C20_CacheAgreesWithChip == C20_Shows(chip, current_state)

\* A call that returned at a "No change" test left a chip that shows the
\* pattern asked for (the cache holds that pattern).
NoChangeOnlyWhenShown == led_obs.skipped => C20_Shows(chip, current_state)

\* led_wakeup() followed by led_set_blinking(p) leaves the chip showing p (the
\* cache holds p after either return of led_set_blinking).
WakeupThenBlinkingShows ==
    (led_obs.prev = "led_wakeup" /\ led_obs.op = "led_set_blinking")
        => /\ current_state.mode = LED_BLINKING
           /\ C20_Shows(chip, current_state)

\* With the menu as the driver's only caller the cache and the chip agree
\* whenever the controller is not inside a poll.
MenuLedShown == pc = "out" => C20_Shows(chip, current_state)
====
